---- MODULE Spec2Model ----
(***************************************************************************)
(* kea-conf-generate: the in-memory builder of a Kea DHCPv4 configuration  *)
(* (KeaGenerator.h / KeaGenerator.cc, and the older single-file main.cc).  *)
(*                                                                         *)
(* Strings are TLA+ strings; std::string's operator< is modelled by        *)
(* StrLess, a character-by-character comparison.  A std::set<T> is a       *)
(* sequence kept in the order of T's operator<, and insert is the ordered  *)
(* insert of std::set (no insertion when an equivalent element exists).    *)
(* A nlohmann::json object is a tagged function from keys to values, an    *)
(* array a tagged sequence.  The variables pre, last, returned and calls   *)
(* record the calls made; the program does not read them.                  *)
(***************************************************************************)
EXTENDS Integers, Sequences, FiniteSets, TLC

VARIABLES
    build,            \* which translation unit is linked: "lib" or "main"
    valid_lifetime,   \* Dhcp4::valid_lifetime
    interface_config, \* Dhcp4::interface_config.interfaces
    lease_database,   \* Dhcp4::lease_database
    max_id,           \* Dhcp4::subnet4.max_id
    cfgs,             \* Dhcp4::subnet4.cfgs
    options,          \* Dhcp4::option_data.options
    pre,              \* history: the configuration before the last call
    last,             \* history: the last call, its arguments and its result
    returned,         \* history: the identifiers add_config returned, in order
    calls             \* history: the add_option calls made, in order

vars == <<build, valid_lifetime, interface_config, lease_database, max_id,
          cfgs, options, pre, last, returned, calls>>

(***************************************************************************)
(* Bounds of the model.                                                    *)
(***************************************************************************)
MaxConfigs == 2
MaxOptionCalls == 3

(***************************************************************************)
(* Inputs.                                                                 *)
(***************************************************************************)
Builds == {"lib", "main"}
Subnets == {"192.168.1.0/24", "10.0.0.0/8"}
\* (low, high) of a pool: short strings in which the order of the strings
\* ("1" < "10" < "5") is not the order of the numbers.
Lows == {"1", "10", "5"}
Highs == {"20"}
\* 0, every identifier add_config may have returned, and one past them.
CfgIds == 0 .. (MaxConfigs + 1)
OptNames == {"routers", "domain-name", "domain-name-servers"}
OptDatas == {"10.0.0.1", "example.com"}
\* The arguments of main ().
MainSubnets == {"192.168.10.0/24"}
MainLows == {"192.168.10.10"}
MainHighs == {"192.168.10.20"}
MainOptNames == {"domain-name-servers"}
MainOptDatas == {"192.0.2.1, 192.0.2.2"}
Lifetimes == {7200}
InterfaceLists == {<<>>, <<"aaa", "bbb">>}
LeaseTypes == {"", "memfile"}
LeaseNames == {"", "/var/lib/kea/dhcp4.leases"}

(***************************************************************************)
(* std::string comparison.  Chars lists the characters the inputs use in   *)
(* ascending order of their (unsigned) character code.                     *)
(***************************************************************************)
Chars == " ,-./0123456789abcdefghijklmnopqrstuvwxyz"

CharCode ==
    [c \in {SubSeq(Chars, i, i) : i \in 1 .. Len(Chars)} |->
        CHOOSE i \in 1 .. Len(Chars) : SubSeq(Chars, i, i) = c]

RECURSIVE StrLess(_, _)
StrLess(a, b) ==
    IF Len(b) = 0 THEN FALSE
    ELSE IF Len(a) = 0 THEN TRUE
    ELSE IF Head(a) # Head(b) THEN CharCode[Head(a)] < CharCode[Head(b)]
    ELSE StrLess(Tail(a), Tail(b))

(***************************************************************************)
(* Subnet4::Pool and OptionData::Option: operator<.                        *)
(***************************************************************************)
\* rhs.range < range: the operands swapped.
PoolLess_descending(lhs, rhs) == StrLess(rhs.range, lhs.range)

PoolLess(lhs, rhs) == StrLess(lhs.range, rhs.range)

\* data < rhs.data: the wrong member compared.
OptionLess_by_data(lhs, rhs) == StrLess(lhs.data, rhs.data)

OptionLess(lhs, rhs) == StrLess(lhs.name, rhs.name)

(***************************************************************************)
(* std::set<Pool>::insert and std::set<Option>::insert: the position is    *)
(* the first element not less than x; x is inserted there unless that      *)
(* element is equivalent to x (neither is less than the other).            *)
(***************************************************************************)
InsertAt(s, i, x) == SubSeq(s, 1, i - 1) \o <<x>> \o SubSeq(s, i, Len(s))

PoolLowerBound(s, x) ==
    CHOOSE i \in 1 .. (Len(s) + 1) :
        /\ \A k \in 1 .. (i - 1) : PoolLess(s[k], x)
        /\ i <= Len(s) => ~PoolLess(s[i], x)

\* std::multiset in place of std::set: an equivalent element is inserted again.
PoolSetInsert_multiset(s, x) == InsertAt(s, PoolLowerBound(s, x), x)

PoolSetInsert(s, x) ==
    LET i == PoolLowerBound(s, x) IN
    IF i <= Len(s) /\ ~PoolLess(x, s[i]) THEN s ELSE InsertAt(s, i, x)

\* A std::vector and push_back in place of the std::set: always at the end.
OptionLowerBound_push_back(s, x) == Len(s) + 1

OptionLowerBound(s, x) ==
    CHOOSE i \in 1 .. (Len(s) + 1) :
        /\ \A k \in 1 .. (i - 1) : OptionLess(s[k], x)
        /\ i <= Len(s) => ~OptionLess(s[i], x)

\* insert_or_assign: an equivalent element is replaced by the new one.
OptionSetInsert_assign(s, x) ==
    LET i == OptionLowerBound(s, x) IN
    IF i <= Len(s) /\ ~OptionLess(x, s[i]) THEN [s EXCEPT ![i] = x]
    ELSE InsertAt(s, i, x)

OptionSetInsert(s, x) ==
    LET i == OptionLowerBound(s, x) IN
    IF i <= Len(s) /\ ~OptionLess(x, s[i]) THEN s ELSE InsertAt(s, i, x)

(***************************************************************************)
(* The configuration as one value (what pre records).                      *)
(***************************************************************************)
Config ==
    [valid_lifetime |-> valid_lifetime,
     interface_config |-> interface_config,
     lease_database |-> lease_database,
     max_id |-> max_id,
     cfgs |-> cfgs,
     options |-> options]

MapPut(m, k, v) == [x \in (DOMAIN m) \cup {k} |-> IF x = k THEN v ELSE m[x]]

(***************************************************************************)
(* Subnet4::add_config.                                                    *)
(***************************************************************************)
\* ++max_id in place of max_id++: the identifier is taken after the increment.
add_config_preincrement(subnet) ==
    /\ build = "lib"
    /\ max_id <= MaxConfigs
    /\ LET current_id == max_id + 1 IN
        /\ max_id' = max_id + 1
        /\ cfgs' = MapPut(cfgs, current_id,
                          [id |-> current_id, subnet |-> subnet, pools |-> <<>>])
        /\ last' = [op |-> "add_config", subnet |-> subnet, ret |-> current_id]
        /\ returned' = Append(returned, current_id)
    /\ pre' = Config
    /\ UNCHANGED <<build, valid_lifetime, interface_config, lease_database,
                   options, calls>>

\* cfgs[max_id] = Cfg{...} without the increment: every call writes the same key.
add_config_no_increment(subnet) ==
    /\ build = "lib"
    /\ max_id <= MaxConfigs
    /\ LET current_id == max_id IN
        /\ max_id' = max_id
        /\ cfgs' = MapPut(cfgs, current_id,
                          [id |-> current_id, subnet |-> subnet, pools |-> <<>>])
        /\ last' = [op |-> "add_config", subnet |-> subnet, ret |-> current_id]
        /\ returned' = Append(returned, current_id)
    /\ pre' = Config
    /\ UNCHANGED <<build, valid_lifetime, interface_config, lease_database,
                   options, calls>>

\* cfgs[current_id] = Cfg{ max_id, ... }: the identifier read after the
\* increment.
add_config_id_after_increment(subnet) ==
    /\ build = "lib"
    /\ max_id <= MaxConfigs
    /\ LET current_id == max_id IN
        /\ max_id' = max_id + 1
        /\ cfgs' = MapPut(cfgs, current_id,
                          [id |-> max_id', subnet |-> subnet, pools |-> <<>>])
        /\ last' = [op |-> "add_config", subnet |-> subnet, ret |-> current_id]
        /\ returned' = Append(returned, current_id)
    /\ pre' = Config
    /\ UNCHANGED <<build, valid_lifetime, interface_config, lease_database,
                   options, calls>>

add_config(subnet) ==
    /\ build = "lib"
    /\ max_id <= MaxConfigs
    /\ LET current_id == max_id IN
        /\ max_id' = max_id + 1
        /\ cfgs' = MapPut(cfgs, current_id,
                          [id |-> current_id, subnet |-> subnet, pools |-> <<>>])
        /\ last' = [op |-> "add_config", subnet |-> subnet, ret |-> current_id]
        /\ returned' = Append(returned, current_id)
    /\ pre' = Config
    /\ UNCHANGED <<build, valid_lifetime, interface_config, lease_database,
                   options, calls>>

main_add_config(subnet) ==
    /\ build = "main"
    /\ max_id <= MaxConfigs
    /\ cfgs' = MapPut(cfgs, max_id,
                      [id |-> max_id, subnet |-> subnet, pools |-> <<>>])
    /\ max_id' = max_id + 1
    /\ last' = [op |-> "add_config", subnet |-> subnet, ret |-> max_id]
    /\ returned' = Append(returned, max_id)
    /\ pre' = Config
    /\ UNCHANGED <<build, valid_lifetime, interface_config, lease_database,
                   options, calls>>

(***************************************************************************)
(* Subnet4::add_pool_for_cfg.                                              *)
(***************************************************************************)
\* cfgs[cfg_id] without the find: operator[] creates the missing entry.
add_pool_for_cfg_subscript(cfg_id, low, high) ==
    /\ build = "lib"
    /\ LET pool_range == low \o " - " \o high
           entry == IF cfg_id \in DOMAIN cfgs THEN cfgs[cfg_id]
                    ELSE [id |-> 0, subnet |-> "", pools |-> <<>>]
       IN cfgs' = MapPut(cfgs, cfg_id,
                         [entry EXCEPT !.pools =
                             PoolSetInsert(@, [range |-> pool_range])])
    /\ last' = [op |-> "add_pool_for_cfg", cfg_id |-> cfg_id,
                low |-> low, high |-> high, ret |-> TRUE]
    /\ pre' = Config
    /\ UNCHANGED <<build, valid_lifetime, interface_config, lease_database,
                   max_id, options, returned, calls>>

\* return pools.insert (...).second: false when the pool was already there.
add_pool_for_cfg_inserted(cfg_id, low, high) ==
    /\ build = "lib"
    /\ IF cfg_id \notin DOMAIN cfgs
       THEN /\ last' = [op |-> "add_pool_for_cfg", cfg_id |-> cfg_id,
                        low |-> low, high |-> high, ret |-> FALSE]
            /\ UNCHANGED cfgs
       ELSE LET pool_range == low \o " - " \o high IN
            /\ cfgs' = [cfgs EXCEPT ![cfg_id].pools =
                            PoolSetInsert(@, [range |-> pool_range])]
            /\ last' = [op |-> "add_pool_for_cfg", cfg_id |-> cfg_id,
                        low |-> low, high |-> high,
                        ret |-> (cfgs'[cfg_id].pools # cfgs[cfg_id].pools)]
    /\ pre' = Config
    /\ UNCHANGED <<build, valid_lifetime, interface_config, lease_database,
                   max_id, options, returned, calls>>

\* The pool inserted into every entry once cfg_id is found.
add_pool_for_cfg_all_entries(cfg_id, low, high) ==
    /\ build = "lib"
    /\ IF cfg_id \notin DOMAIN cfgs
       THEN /\ last' = [op |-> "add_pool_for_cfg", cfg_id |-> cfg_id,
                        low |-> low, high |-> high, ret |-> FALSE]
            /\ UNCHANGED cfgs
       ELSE LET pool_range == low \o " - " \o high IN
            /\ cfgs' = [k \in DOMAIN cfgs |->
                           [cfgs[k] EXCEPT !.pools =
                               PoolSetInsert(@, [range |-> pool_range])]]
            /\ last' = [op |-> "add_pool_for_cfg", cfg_id |-> cfg_id,
                        low |-> low, high |-> high, ret |-> TRUE]
    /\ pre' = Config
    /\ UNCHANGED <<build, valid_lifetime, interface_config, lease_database,
                   max_id, options, returned, calls>>

add_pool_for_cfg(cfg_id, low, high) ==
    /\ build = "lib"
    /\ IF cfg_id \notin DOMAIN cfgs
       THEN /\ last' = [op |-> "add_pool_for_cfg", cfg_id |-> cfg_id,
                        low |-> low, high |-> high, ret |-> FALSE]
            /\ UNCHANGED cfgs
       ELSE LET pool_range == low \o " - " \o high IN
            /\ cfgs' = [cfgs EXCEPT ![cfg_id].pools =
                            PoolSetInsert(@, [range |-> pool_range])]
            /\ last' = [op |-> "add_pool_for_cfg", cfg_id |-> cfg_id,
                        low |-> low, high |-> high, ret |-> TRUE]
    /\ pre' = Config
    /\ UNCHANGED <<build, valid_lifetime, interface_config, lease_database,
                   max_id, options, returned, calls>>

main_add_pool_for_cfg(cfg_id, low, high) ==
    /\ build = "main"
    /\ IF cfg_id \notin DOMAIN cfgs
       THEN /\ last' = [op |-> "add_pool_for_cfg", cfg_id |-> cfg_id,
                        low |-> low, high |-> high, ret |-> FALSE]
            /\ UNCHANGED cfgs
       ELSE LET pool == low \o " - " \o high IN
            /\ cfgs' = [cfgs EXCEPT ![cfg_id].pools =
                            PoolSetInsert(@, [range |-> pool])]
            /\ last' = [op |-> "add_pool_for_cfg", cfg_id |-> cfg_id,
                        low |-> low, high |-> high, ret |-> TRUE]
    /\ pre' = Config
    /\ UNCHANGED <<build, valid_lifetime, interface_config, lease_database,
                   max_id, options, returned, calls>>

(***************************************************************************)
(* OptionData::add_option and OptionData::add_option_always.               *)
(***************************************************************************)
add_option(name, data, always_send) ==
    /\ build = "lib"
    /\ Len(calls) < MaxOptionCalls
    /\ options' = OptionSetInsert(options,
                      [name |-> name, data |-> data, always_send |-> always_send])
    /\ last' = [op |-> "add_option", name |-> name, data |-> data,
                always_send |-> always_send]
    /\ calls' = Append(calls,
                      [name |-> name, data |-> data, always_send |-> always_send])
    /\ pre' = Config
    /\ UNCHANGED <<build, valid_lifetime, interface_config, lease_database,
                   max_id, cfgs, returned>>

\* add_option (name, data, false): the wrong flag passed on.
add_option_always_false(name, data) ==
    /\ build = "lib"
    /\ Len(calls) < MaxOptionCalls
    /\ options' = OptionSetInsert(options,
                      [name |-> name, data |-> data, always_send |-> FALSE])
    /\ last' = [op |-> "add_option_always", name |-> name, data |-> data,
                always_send |-> TRUE]
    /\ calls' = Append(calls,
                      [name |-> name, data |-> data, always_send |-> TRUE])
    /\ pre' = Config
    /\ UNCHANGED <<build, valid_lifetime, interface_config, lease_database,
                   max_id, cfgs, returned>>

add_option_always(name, data) ==
    /\ build = "lib"
    /\ Len(calls) < MaxOptionCalls
    /\ options' = OptionSetInsert(options,
                      [name |-> name, data |-> data, always_send |-> TRUE])
    /\ last' = [op |-> "add_option_always", name |-> name, data |-> data,
                always_send |-> TRUE]
    /\ calls' = Append(calls,
                      [name |-> name, data |-> data, always_send |-> TRUE])
    /\ pre' = Config
    /\ UNCHANGED <<build, valid_lifetime, interface_config, lease_database,
                   max_id, cfgs, returned>>

main_add_option(name, data, always_send) ==
    /\ build = "main"
    /\ Len(calls) < MaxOptionCalls
    /\ options' = OptionSetInsert(options,
                      [name |-> name, data |-> data, always_send |-> always_send])
    /\ last' = [op |-> "add_option", name |-> name, data |-> data,
                always_send |-> always_send]
    /\ calls' = Append(calls,
                      [name |-> name, data |-> data, always_send |-> always_send])
    /\ pre' = Config
    /\ UNCHANGED <<build, valid_lifetime, interface_config, lease_database,
                   max_id, cfgs, returned>>

main_add_option_always(name, data) ==
    /\ build = "main"
    /\ Len(calls) < MaxOptionCalls
    /\ options' = OptionSetInsert(options,
                      [name |-> name, data |-> data, always_send |-> TRUE])
    /\ last' = [op |-> "add_option_always", name |-> name, data |-> data,
                always_send |-> TRUE]
    /\ calls' = Append(calls,
                      [name |-> name, data |-> data, always_send |-> TRUE])
    /\ pre' = Config
    /\ UNCHANGED <<build, valid_lifetime, interface_config, lease_database,
                   max_id, cfgs, returned>>

(***************************************************************************)
(* nlohmann::json values: an object is tagged "object" and holds a         *)
(* function from keys to values, an array is tagged "array" and holds a    *)
(* sequence; strings, numbers and booleans stand for themselves.           *)
(***************************************************************************)
JsonObject(f) == [object |-> f]

JsonArray(s) == [array |-> s]

\* A default-constructed json.
JsonNull == [null |-> TRUE]

\* j[key] = value: a null json becomes an object; the key's old value, if
\* any, is replaced.
JsonSet(j, key, value) ==
    JsonObject((key :> value) @@ (IF "object" \in DOMAIN j THEN j.object ELSE <<>>))

(***************************************************************************)
(* to_json (OptionData::Option) and to_json (OptionData): the array holds  *)
(* the options in the set's iteration order.                               *)
(***************************************************************************)
to_json_Option(o) ==
    JsonObject(("name" :> o.name) @@ ("data" :> o.data)
               @@ ("always-send" :> o.always_send))

to_json_OptionData(o) ==
    JsonArray([i \in 1 .. Len(o) |-> to_json_Option(o[i])])

\* json j = od;
call_to_json_OptionData ==
    /\ last' = [op |-> "to_json_OptionData", ret |-> to_json_OptionData(options)]
    /\ pre' = Config
    /\ UNCHANGED <<build, valid_lifetime, interface_config, lease_database,
                   max_id, cfgs, options, returned, calls>>

(***************************************************************************)
(* empty () of the four sections.                                          *)
(***************************************************************************)
InterfacesConfig_empty(interfaces) == Len(interfaces) = 0

\* type.empty () && name.empty (): the wrong connective.
LeaseDatabase_empty_both(l) == l.type = "" /\ l.name = ""

LeaseDatabase_empty(l) == l.type = "" \/ l.name = ""

main_LeaseDatabase_empty(l) == IF l.type = "" \/ l.name = "" THEN TRUE ELSE FALSE

Subnet4_empty(c) == DOMAIN c = {}

OptionData_empty(o) == Len(o) = 0

(***************************************************************************)
(* to_json of the sections.                                                *)
(***************************************************************************)
to_json_InterfacesConfig(interfaces) ==
    JsonObject("interfaces" :> JsonArray(interfaces))

to_json_LeaseDatabase(l) ==
    JsonSet(JsonSet(JsonSet(JsonNull, "type", l.type), "persist", l.persist),
            "name", l.name)

to_json_Pool(p) == JsonObject("pool" :> p.range)

to_json_Cfg(c) ==
    JsonObject(("id" :> c.id) @@ ("subnet" :> c.subnet)
               @@ ("pools" :> JsonArray([i \in 1 .. Len(c.pools) |->
                                            to_json_Pool(c.pools[i])])))

\* The orders in which a std::unordered_map may iterate over its entries:
\* every enumeration of the keys.
IterationOrders(c) ==
    {f \in [1 .. Cardinality(DOMAIN c) -> DOMAIN c] :
        \A i, k \in 1 .. Cardinality(DOMAIN c) : f[i] = f[k] => i = k}

\* cfg_vector.resize (s.cfgs.size ()) in place of reserve: the vector starts
\* with size () default entries and push_back adds the entries after them.
to_json_Subnet4_resized(c, order) ==
    JsonArray([i \in 1 .. Len(order) |->
                   to_json_Cfg([id |-> 0, subnet |-> "", pools |-> <<>>])]
              \o [i \in 1 .. Len(order) |-> to_json_Cfg(c[order[i]])])

\* to_json (Subnet4): one element per entry, in the map's iteration order.
to_json_Subnet4(c, order) ==
    JsonArray([i \in 1 .. Len(order) |-> to_json_Cfg(c[order[i]])])

\* json j = subnet4;
call_to_json_Subnet4 ==
    /\ \E order \in IterationOrders(cfgs) :
           last' = [op |-> "to_json_Subnet4", ret |-> to_json_Subnet4(cfgs, order)]
    /\ pre' = Config
    /\ UNCHANGED <<build, valid_lifetime, interface_config, lease_database,
                   max_id, cfgs, options, returned, calls>>

(***************************************************************************)
(* to_json (Dhcp4), KeaGenerator.cc: the document j and what is written to *)
(* std::cerr.                                                              *)
(***************************************************************************)
\* The empty interfaces-config is reported, and serialization goes on.
to_json_Dhcp4_no_return(d, order) ==
    LET j0 == JsonObject("valid-lifetime" :> d.valid_lifetime)
        e1 == IF InterfacesConfig_empty(d.interface_config)
              THEN <<"interfaces-config is empty during JSON serialization">>
              ELSE <<>>
        j1 == IF InterfacesConfig_empty(d.interface_config) THEN j0
              ELSE JsonSet(j0, "interfaces-config",
                           to_json_InterfacesConfig(d.interface_config))
    IN
    IF LeaseDatabase_empty(d.lease_database)
    THEN [j |-> j1,
          cerr |-> e1 \o <<"lease database is empty during JSON serialization">>]
    ELSE
    LET j2 == JsonSet(j1, "lease-database",
                      to_json_LeaseDatabase(d.lease_database)) IN
    IF Subnet4_empty(d.cfgs)
    THEN [j |-> j2,
          cerr |-> e1 \o <<"subnet4 is empty during JSON serialization">>]
    ELSE
    LET j3 == JsonSet(j2, "subnet4", to_json_Subnet4(d.cfgs, order)) IN
    IF ~OptionData_empty(d.options)
    THEN [j |-> JsonSet(j3, "option-data", to_json_OptionData(d.options)),
          cerr |-> e1]
    ELSE [j |-> j3, cerr |-> e1]

\* The empty subnet4 is reported and left out, like an empty option-data,
\* and serialization goes on.
to_json_Dhcp4_subnet4_omitted(d, order) ==
    LET j0 == JsonObject("valid-lifetime" :> d.valid_lifetime) IN
    IF InterfacesConfig_empty(d.interface_config)
    THEN [j |-> j0,
          cerr |-> <<"interfaces-config is empty during JSON serialization">>]
    ELSE
    LET j1 == JsonSet(j0, "interfaces-config",
                      to_json_InterfacesConfig(d.interface_config)) IN
    IF LeaseDatabase_empty(d.lease_database)
    THEN [j |-> j1,
          cerr |-> <<"lease database is empty during JSON serialization">>]
    ELSE
    LET j2 == JsonSet(j1, "lease-database",
                      to_json_LeaseDatabase(d.lease_database))
        e3 == IF Subnet4_empty(d.cfgs)
              THEN <<"subnet4 is empty during JSON serialization">>
              ELSE <<>>
        j3 == IF Subnet4_empty(d.cfgs) THEN j2
              ELSE JsonSet(j2, "subnet4", to_json_Subnet4(d.cfgs, order))
    IN
    IF ~OptionData_empty(d.options)
    THEN [j |-> JsonSet(j3, "option-data", to_json_OptionData(d.options)),
          cerr |-> e3]
    ELSE [j |-> j3, cerr |-> e3]

\* j["option-data"] = d.option_data without the test: an empty option-data
\* is emitted as an empty array.
to_json_Dhcp4_always_options(d, order) ==
    LET j0 == JsonObject("valid-lifetime" :> d.valid_lifetime) IN
    IF InterfacesConfig_empty(d.interface_config)
    THEN [j |-> j0,
          cerr |-> <<"interfaces-config is empty during JSON serialization">>]
    ELSE
    LET j1 == JsonSet(j0, "interfaces-config",
                      to_json_InterfacesConfig(d.interface_config)) IN
    IF LeaseDatabase_empty(d.lease_database)
    THEN [j |-> j1,
          cerr |-> <<"lease database is empty during JSON serialization">>]
    ELSE
    LET j2 == JsonSet(j1, "lease-database",
                      to_json_LeaseDatabase(d.lease_database)) IN
    IF Subnet4_empty(d.cfgs)
    THEN [j |-> j2,
          cerr |-> <<"subnet4 is empty during JSON serialization">>]
    ELSE
    LET j3 == JsonSet(j2, "subnet4", to_json_Subnet4(d.cfgs, order)) IN
    [j |-> JsonSet(j3, "option-data", to_json_OptionData(d.options)),
     cerr |-> <<>>]

\* An empty lease database only omits its field: no return, subnet4 and
\* option-data are still looked at.
to_json_Dhcp4_lease_skipped(d, order) ==
    LET j0 == JsonObject("valid-lifetime" :> d.valid_lifetime) IN
    IF InterfacesConfig_empty(d.interface_config)
    THEN [j |-> j0,
          cerr |-> <<"interfaces-config is empty during JSON serialization">>]
    ELSE
    LET j1 == JsonSet(j0, "interfaces-config",
                      to_json_InterfacesConfig(d.interface_config))
        e2 == IF LeaseDatabase_empty(d.lease_database)
              THEN <<"lease database is empty during JSON serialization">>
              ELSE <<>>
        j2 == IF LeaseDatabase_empty(d.lease_database) THEN j1
              ELSE JsonSet(j1, "lease-database",
                           to_json_LeaseDatabase(d.lease_database))
    IN
    IF Subnet4_empty(d.cfgs)
    THEN [j |-> j2,
          cerr |-> e2 \o <<"subnet4 is empty during JSON serialization">>]
    ELSE
    LET j3 == JsonSet(j2, "subnet4", to_json_Subnet4(d.cfgs, order)) IN
    IF ~OptionData_empty(d.options)
    THEN [j |-> JsonSet(j3, "option-data", to_json_OptionData(d.options)),
          cerr |-> e2]
    ELSE [j |-> j3, cerr |-> e2]

to_json_Dhcp4(d, order) ==
    LET j0 == JsonObject("valid-lifetime" :> d.valid_lifetime) IN
    IF InterfacesConfig_empty(d.interface_config)
    THEN [j |-> j0,
          cerr |-> <<"interfaces-config is empty during JSON serialization">>]
    ELSE
    LET j1 == JsonSet(j0, "interfaces-config",
                      to_json_InterfacesConfig(d.interface_config)) IN
    IF LeaseDatabase_empty(d.lease_database)
    THEN [j |-> j1,
          cerr |-> <<"lease database is empty during JSON serialization">>]
    ELSE
    LET j2 == JsonSet(j1, "lease-database",
                      to_json_LeaseDatabase(d.lease_database)) IN
    IF Subnet4_empty(d.cfgs)
    THEN [j |-> j2,
          cerr |-> <<"subnet4 is empty during JSON serialization">>]
    ELSE
    LET j3 == JsonSet(j2, "subnet4", to_json_Subnet4(d.cfgs, order)) IN
    IF ~OptionData_empty(d.options)
    THEN [j |-> JsonSet(j3, "option-data", to_json_OptionData(d.options)),
          cerr |-> <<>>]
    ELSE [j |-> j3, cerr |-> <<>>]

(***************************************************************************)
(* to_json (Dhcp4), main.cc: an empty option-data is reported too.         *)
(***************************************************************************)
\* j["option-data"] = d.option_data moved above the test of option_data: an
\* empty option-data leaves an empty array in the document.
main_to_json_Dhcp4_options_first(d, order) ==
    LET j0 == JsonObject("valid-lifetime" :> d.valid_lifetime) IN
    IF InterfacesConfig_empty(d.interface_config)
    THEN [j |-> j0, cerr |-> <<"interfaces-config is empty">>]
    ELSE
    LET j1 == JsonSet(j0, "interfaces-config",
                      to_json_InterfacesConfig(d.interface_config)) IN
    IF main_LeaseDatabase_empty(d.lease_database)
    THEN [j |-> j1, cerr |-> <<"lease database is empty">>]
    ELSE
    LET j2 == JsonSet(j1, "lease-database",
                      to_json_LeaseDatabase(d.lease_database)) IN
    IF Subnet4_empty(d.cfgs)
    THEN [j |-> j2, cerr |-> <<"subnet4 is empty">>]
    ELSE
    LET j3 == JsonSet(j2, "subnet4", to_json_Subnet4(d.cfgs, order))
        j4 == JsonSet(j3, "option-data", to_json_OptionData(d.options))
    IN
    IF OptionData_empty(d.options)
    THEN [j |-> j4, cerr |-> <<"option data is empty">>]
    ELSE [j |-> j4, cerr |-> <<>>]

main_to_json_Dhcp4(d, order) ==
    LET j0 == JsonObject("valid-lifetime" :> d.valid_lifetime) IN
    IF InterfacesConfig_empty(d.interface_config)
    THEN [j |-> j0, cerr |-> <<"interfaces-config is empty">>]
    ELSE
    LET j1 == JsonSet(j0, "interfaces-config",
                      to_json_InterfacesConfig(d.interface_config)) IN
    IF main_LeaseDatabase_empty(d.lease_database)
    THEN [j |-> j1, cerr |-> <<"lease database is empty">>]
    ELSE
    LET j2 == JsonSet(j1, "lease-database",
                      to_json_LeaseDatabase(d.lease_database)) IN
    IF Subnet4_empty(d.cfgs)
    THEN [j |-> j2, cerr |-> <<"subnet4 is empty">>]
    ELSE
    LET j3 == JsonSet(j2, "subnet4", to_json_Subnet4(d.cfgs, order)) IN
    IF OptionData_empty(d.options)
    THEN [j |-> j3, cerr |-> <<"option data is empty">>]
    ELSE [j |-> JsonSet(j3, "option-data", to_json_OptionData(d.options)),
          cerr |-> <<>>]

\* A serializer taking Dhcp4 & and moving the options out of it.
call_to_json_Dhcp4_moved ==
    /\ build = "lib"
    /\ \E order \in IterationOrders(cfgs) :
           LET r == to_json_Dhcp4(Config, order) IN
           last' = [op |-> "to_json_Dhcp4", ret |-> r.j, cerr |-> r.cerr]
    /\ pre' = Config
    /\ options' = <<>>
    /\ UNCHANGED <<build, valid_lifetime, interface_config, lease_database,
                   max_id, cfgs, returned, calls>>

\* json j = dhcp4;
call_to_json_Dhcp4 ==
    /\ build = "lib"
    /\ \E order \in IterationOrders(cfgs) :
           LET r == to_json_Dhcp4(Config, order) IN
           last' = [op |-> "to_json_Dhcp4", ret |-> r.j, cerr |-> r.cerr]
    /\ pre' = Config
    /\ UNCHANGED <<build, valid_lifetime, interface_config, lease_database,
                   max_id, cfgs, options, returned, calls>>

main_call_to_json_Dhcp4 ==
    /\ build = "main"
    /\ \E order \in IterationOrders(cfgs) :
           LET r == main_to_json_Dhcp4(Config, order) IN
           last' = [op |-> "to_json_Dhcp4", ret |-> r.j, cerr |-> r.cerr]
    /\ pre' = Config
    /\ UNCHANGED <<build, valid_lifetime, interface_config, lease_database,
                   max_id, cfgs, options, returned, calls>>

(***************************************************************************)
(* to_json (KeaConfig): the object { "Dhcp4": k.dhcp4 }; the conversion of *)
(* k.dhcp4 calls to_json (Dhcp4).                                          *)
(***************************************************************************)
\* j = k.dhcp4: the document of the Dhcp4 without the enclosing object.
to_json_KeaConfig_unwrapped(k, order) == to_json_Dhcp4(k, order)

to_json_KeaConfig(k, order) ==
    LET r == to_json_Dhcp4(k, order) IN
    [j |-> JsonObject("Dhcp4" :> r.j), cerr |-> r.cerr]

main_to_json_KeaConfig(k, order) ==
    LET r == main_to_json_Dhcp4(k, order) IN
    [j |-> JsonObject("Dhcp4" :> r.j), cerr |-> r.cerr]

\* json j = config; where config.dhcp4 is the Dhcp4 of the state.
call_to_json_KeaConfig ==
    /\ build = "lib"
    /\ \E order \in IterationOrders(cfgs) :
           LET r == to_json_KeaConfig(Config, order) IN
           last' = [op |-> "to_json_KeaConfig", ret |-> r.j, cerr |-> r.cerr]
    /\ pre' = Config
    /\ UNCHANGED <<build, valid_lifetime, interface_config, lease_database,
                   max_id, cfgs, options, returned, calls>>

main_call_to_json_KeaConfig ==
    /\ build = "main"
    /\ \E order \in IterationOrders(cfgs) :
           LET r == main_to_json_KeaConfig(Config, order) IN
           last' = [op |-> "to_json_KeaConfig", ret |-> r.j, cerr |-> r.cerr]
    /\ pre' = Config
    /\ UNCHANGED <<build, valid_lifetime, interface_config, lease_database,
                   max_id, cfgs, options, returned, calls>>

(***************************************************************************)
(* The constructors of Dhcp4.                                              *)
(***************************************************************************)
\* LeaseDatabase ()
LeaseDatabase_default == [type |-> "", persist |-> FALSE, name |-> ""]

\* Dhcp4 ()
Dhcp4_default ==
    [valid_lifetime |-> 0, interface_config |-> <<>>,
     lease_database |-> LeaseDatabase_default,
     max_id |-> 1, cfgs |-> <<>>, options |-> <<>>]

\* Dhcp4 (lifetime, interfaces_init_list, lease_type, lease_persist, lease_name)
Dhcp4_ctor(lifetime, interfaces, lease_type, lease_persist, lease_name) ==
    [valid_lifetime |-> lifetime, interface_config |-> interfaces,
     lease_database |-> [type |-> lease_type, persist |-> lease_persist,
                         name |-> lease_name],
     max_id |-> 1, cfgs |-> <<>>, options |-> <<>>]

\* What the constructor writes to std::cerr (KeaGenerator.h only).
Dhcp4_ctor_cerr(interfaces) ==
    IF InterfacesConfig_empty(interfaces)
    THEN <<"[Warning] Dhcp4 created with empty interfaces-config.">>
    ELSE <<>>

(***************************************************************************)
(* A Subnet4 on its own: Subnet4 s4; followed by add_config and            *)
(* add_pool_for_cfg calls.  The rest of the Dhcp4 is the default           *)
(* KeaConfig's.                                                            *)
(***************************************************************************)
InitSubnet4 ==
    /\ build \in Builds
    /\ valid_lifetime = 4000
    /\ interface_config = <<"aaa", "bbb">>
    /\ lease_database = [type |-> "memfile", persist |-> TRUE,
                         name |-> "/var/lib/kea/dhcp4.leases"]
    /\ max_id = 1
    /\ cfgs = <<>>
    /\ options = <<>>
    /\ pre = [valid_lifetime |-> 4000,
              interface_config |-> <<"aaa", "bbb">>,
              lease_database |-> [type |-> "memfile", persist |-> TRUE,
                                  name |-> "/var/lib/kea/dhcp4.leases"],
              max_id |-> 1, cfgs |-> <<>>, options |-> <<>>]
    /\ last = [op |-> "Subnet4"]
    /\ returned = <<>>
    /\ calls = <<>>

NextSubnet4 ==
    \/ \E subnet \in Subnets : add_config(subnet)
    \/ \E subnet \in Subnets : main_add_config(subnet)
    \/ \E cfg_id \in CfgIds, low \in Lows, high \in Highs :
           add_pool_for_cfg(cfg_id, low, high)
    \/ \E cfg_id \in CfgIds, low \in Lows, high \in Highs :
           main_add_pool_for_cfg(cfg_id, low, high)
    \/ call_to_json_Subnet4

SpecSubnet4 == InitSubnet4 /\ [][NextSubnet4]_vars

(***************************************************************************)
(* An OptionData on its own: OptionData od; followed by add_option and     *)
(* add_option_always calls and serializations.                             *)
(***************************************************************************)
InitOptionData ==
    /\ build \in Builds
    /\ valid_lifetime = 4000
    /\ interface_config = <<"aaa", "bbb">>
    /\ lease_database = [type |-> "memfile", persist |-> TRUE,
                         name |-> "/var/lib/kea/dhcp4.leases"]
    /\ max_id = 1
    /\ cfgs = <<>>
    /\ options = <<>>
    /\ pre = [valid_lifetime |-> 4000,
              interface_config |-> <<"aaa", "bbb">>,
              lease_database |-> [type |-> "memfile", persist |-> TRUE,
                                  name |-> "/var/lib/kea/dhcp4.leases"],
              max_id |-> 1, cfgs |-> <<>>, options |-> <<>>]
    /\ last = [op |-> "OptionData"]
    /\ returned = <<>>
    /\ calls = <<>>

NextOptionData ==
    \/ \E name \in OptNames, data \in OptDatas, always_send \in BOOLEAN :
           add_option(name, data, always_send)
    \/ \E name \in OptNames, data \in OptDatas : add_option_always(name, data)
    \/ \E name \in OptNames, data \in OptDatas, always_send \in BOOLEAN :
           main_add_option(name, data, always_send)
    \/ \E name \in OptNames, data \in OptDatas :
           main_add_option_always(name, data)
    \/ call_to_json_OptionData

SpecOptionData == InitOptionData /\ [][NextOptionData]_vars

(***************************************************************************)
(* The program: a Dhcp4 is constructed, populated through subnet4 and      *)
(* option_data, and serialized, any number of times and in any order.      *)
(***************************************************************************)
InitFrom(d) ==
    /\ valid_lifetime = d.valid_lifetime
    /\ interface_config = d.interface_config
    /\ lease_database = d.lease_database
    /\ max_id = d.max_id
    /\ cfgs = d.cfgs
    /\ options = d.options
    /\ pre = d
    /\ returned = <<>>
    /\ calls = <<>>

Init ==
    /\ build \in Builds
    /\ \/ /\ build = "lib"
          /\ InitFrom(Dhcp4_default)
          /\ last = [op |-> "Dhcp4", cerr |-> <<>>]
       \/ \E lifetime \in Lifetimes, interfaces \in InterfaceLists,
             lease_type \in LeaseTypes, lease_persist \in BOOLEAN,
             lease_name \in LeaseNames :
             /\ InitFrom(Dhcp4_ctor(lifetime, interfaces, lease_type,
                                    lease_persist, lease_name))
             /\ last = [op |-> "Dhcp4",
                        cerr |-> IF build = "lib"
                                 THEN Dhcp4_ctor_cerr(interfaces) ELSE <<>>]

Next ==
    \/ \E subnet \in MainSubnets : add_config(subnet)
    \/ \E subnet \in MainSubnets : main_add_config(subnet)
    \/ \E cfg_id \in CfgIds, low \in MainLows, high \in MainHighs :
           add_pool_for_cfg(cfg_id, low, high)
    \/ \E cfg_id \in CfgIds, low \in MainLows, high \in MainHighs :
           main_add_pool_for_cfg(cfg_id, low, high)
    \/ \E name \in MainOptNames, data \in MainOptDatas, always_send \in BOOLEAN :
           add_option(name, data, always_send)
    \/ \E name \in MainOptNames, data \in MainOptDatas :
           add_option_always(name, data)
    \/ \E name \in MainOptNames, data \in MainOptDatas, always_send \in BOOLEAN :
           main_add_option(name, data, always_send)
    \/ \E name \in MainOptNames, data \in MainOptDatas :
           main_add_option_always(name, data)
    \/ call_to_json_Dhcp4
    \/ main_call_to_json_Dhcp4
    \/ call_to_json_KeaConfig
    \/ main_call_to_json_KeaConfig

Spec == Init /\ [][Next]_vars

(***************************************************************************)
(* Properties of Subnet4 (checked under SpecSubnet4).                      *)
(***************************************************************************)
IsAddPool == last.op = "add_pool_for_cfg"

WasReturned(id) == \E k \in 1 .. Len(returned) : returned[k] = id

RangeCount(pools, r) == Cardinality({i \in 1 .. Len(pools) : pools[i].range = r})

\* C1: the k-th add_config call returns the identifier k (identifiers start
\* at 1, increase by one, leave no gap and are never reused), whatever
\* add_pool_for_cfg calls are made in between.
C1_IdentifiersSequential == \A k \in 1 .. Len(returned) : returned[k] = k

\* Two add_config calls with a successful add_pool_for_cfg between them.
C1_Witness ==
    /\ last.op = "add_config"
    /\ Len(returned) = 2
    /\ cfgs[1].pools # <<>>

\* C2: add_pool_for_cfg with an identifier no add_config call returned
\* returns false and leaves the Subnet4 (entries, pools, next-id counter)
\* as it was.
C2_UnknownIdRejected ==
    (IsAddPool /\ ~WasReturned(last.cfg_id)) =>
        /\ last.ret = FALSE
        /\ cfgs = pre.cfgs
        /\ max_id = pre.max_id

\* A call with an identifier at or past the next-id counter, on a Subnet4
\* that holds an entry with a pool.
C2_Witness ==
    /\ IsAddPool
    /\ last.cfg_id >= max_id
    /\ 1 \in DOMAIN cfgs
    /\ cfgs[1].pools # <<>>

\* C3: on an existing entry add_pool_for_cfg stores the pool whose range is
\* low + " - " + high, once: when that range was already in the entry's
\* pools the pools are as many as before (one when it was the only pool).
C3_PoolDescriptorOnce ==
    (IsAddPool /\ last.cfg_id \in DOMAIN pre.cfgs) =>
        LET r == last.low \o " - " \o last.high
            before == pre.cfgs[last.cfg_id].pools
            after == cfgs[last.cfg_id].pools
        IN  /\ RangeCount(after, r) = 1
            /\ \A i \in 1 .. Len(after) :
                   after[i].range = r \/ RangeCount(before, after[i].range) = 1
            /\ RangeCount(before, r) >= 1 => Len(after) = Len(before)
            /\ before = <<[range |-> r]>> => Len(after) = 1

\* The second call with the same (low, high) on an entry whose only pool it is.
C3_Witness ==
    /\ IsAddPool
    /\ last.cfg_id \in DOMAIN pre.cfgs
    /\ pre.cfgs[last.cfg_id].pools =
           <<[range |-> last.low \o " - " \o last.high]>>
    /\ Len(cfgs[last.cfg_id].pools) = 1

\* C4: add_pool_for_cfg returns true exactly when the identifier is that of
\* an existing subnet entry, also when the range was already in its pools.
C4_ReturnsTrueIffEntryExists ==
    IsAddPool =>
        (last.ret = TRUE <=>
            \E k \in DOMAIN pre.cfgs : pre.cfgs[k].id = last.cfg_id)

\* A call that returned true for a range the entry already held, next to
\* another pool.
C4_Witness ==
    /\ IsAddPool
    /\ last.ret = TRUE
    /\ Len(pre.cfgs[last.cfg_id].pools) = 2
    /\ RangeCount(pre.cfgs[last.cfg_id].pools,
                  last.low \o " - " \o last.high) = 1

(***************************************************************************)
(* Properties of OptionData (checked under SpecOptionData).                *)
(***************************************************************************)
IsAddOption == last.op \in {"add_option", "add_option_always"}

\* a comes before b in lexicographic order: at the first position where
\* they differ a has ended or has the smaller character.
LexBefore(a, b) ==
    \E k \in 1 .. Len(b) :
        /\ k <= Len(a) + 1
        /\ SubSeq(a, 1, k - 1) = SubSeq(b, 1, k - 1)
        /\ \/ k = Len(a) + 1
           \/ CharCode[SubSeq(a, k, k)] < CharCode[SubSeq(b, k, k)]

\* C5: first write wins.  add_option and add_option_always with a name that
\* is already present change nothing: as many options as before, and the
\* option of that name keeps its data and its always-send.
C5_FirstWriteWins ==
    (IsAddOption /\ \E i \in 1 .. Len(pre.options) :
                        pre.options[i].name = last.name) =>
        /\ Len(options) = Len(pre.options)
        /\ \A i \in 1 .. Len(pre.options) :
               pre.options[i].name = last.name =>
                   \E j \in 1 .. Len(options) : options[j] = pre.options[i]
        /\ options = pre.options

\* A call whose name is present with another data and another always-send.
C5_Witness ==
    /\ IsAddOption
    /\ \E i \in 1 .. Len(pre.options) :
           /\ pre.options[i].name = last.name
           /\ pre.options[i].data # last.data
           /\ pre.options[i].always_send # last.always_send

\* C6: the options are held, and serialized, in strictly ascending
\* lexicographic order of name (so no two share a name), whatever the order
\* of the calls.
C6_AscendingByName ==
    /\ \A i, j \in 1 .. Len(options) :
           i < j => LexBefore(options[i].name, options[j].name)
    /\ last.op = "to_json_OptionData" =>
           LET arr == last.ret.array IN
           /\ Len(arr) = Len(options)
           /\ \A i \in 1 .. Len(arr) : arr[i].object["name"] = options[i].name
           /\ \A i, j \in 1 .. Len(arr) :
                  i < j => LexBefore(arr[i].object["name"], arr[j].object["name"])

\* Three options added in descending order of name, then serialized.
C6_Witness ==
    /\ last.op = "to_json_OptionData"
    /\ Len(calls) = 3
    /\ calls[1].name = "routers"
    /\ calls[2].name = "domain-name-servers"
    /\ calls[3].name = "domain-name"
    /\ Len(last.ret.array) = 3

\* The OptionData that the calls s, made in this order on an empty
\* OptionData, leave.
RECURSIVE ApplyCalls(_)
ApplyCalls(s) ==
    IF s = <<>> THEN <<>>
    ELSE OptionSetInsert(ApplyCalls(SubSeq(s, 1, Len(s) - 1)), s[Len(s)])

Reorderings(s) ==
    {[i \in 1 .. Len(s) |-> s[f[i]]] : f \in Permutations(1 .. Len(s))}

SameNameSameOption(s) ==
    \A i, j \in 1 .. Len(s) : s[i].name = s[j].name => s[i] = s[j]

\* C7 as stated: any reordering of the add_option calls made so far
\* serializes to the same array.
C7_AnyOrderSameArray ==
    last.op = "to_json_OptionData" =>
        \A t \in Reorderings(calls) :
            to_json_OptionData(ApplyCalls(t)) = last.ret

\* C7 as amended: any reordering of the add_option calls made so far
\* serializes to the same array, provided the calls that share a name
\* also share their data and always-send.
C7_AnyOrderSameArrayDistinct ==
    (last.op = "to_json_OptionData" /\ SameNameSameOption(calls)) =>
        \A t \in Reorderings(calls) :
            to_json_OptionData(ApplyCalls(t)) = last.ret

\* Three options of different names added out of order, then serialized.
C7_Witness ==
    /\ last.op = "to_json_OptionData"
    /\ Len(calls) = 3
    /\ calls[1].name = "routers"
    /\ calls[3].name = "domain-name-servers"
    /\ Len(options) = 3

(***************************************************************************)
(* Properties of to_json (Dhcp4) (checked under Spec).                     *)
(***************************************************************************)
IsToJsonDhcp4 == last.op = "to_json_Dhcp4"

LeaseHasEmptyField == lease_database.type = "" \/ lease_database.name = ""

\* C8: a Dhcp4 with no interface serializes, with a diagnostic, to an object
\* whose only field is valid-lifetime, equal to the lifetime, whatever the
\* lease database, the subnets and the options are; a default-constructed
\* Dhcp4 serializes to {"valid-lifetime": 0}.
C8_EmptyInterfacesOnlyLifetime ==
    /\ (IsToJsonDhcp4 /\ interface_config = <<>>) =>
           /\ last.ret = JsonObject("valid-lifetime" :> valid_lifetime)
           /\ last.cerr # <<>>
    /\ (IsToJsonDhcp4 /\ Config = Dhcp4_default) =>
           last.ret = JsonObject("valid-lifetime" :> 0)

\* No interface, but a usable lease database, a subnet and an option.
C8_Witness ==
    /\ IsToJsonDhcp4
    /\ interface_config = <<>>
    /\ ~LeaseHasEmptyField
    /\ DOMAIN cfgs # {}
    /\ options # <<>>

\* C9: with interfaces, the lease database is left out exactly when its type
\* or its name is the empty string, and then the document has exactly the
\* fields valid-lifetime and interfaces-config and a diagnostic is emitted,
\* whatever persist, the subnets and the options are.
C9_EmptyLeaseDatabaseTwoFields ==
    (IsToJsonDhcp4 /\ interface_config # <<>>) =>
        /\ LeaseHasEmptyField <=> "lease-database" \notin DOMAIN last.ret.object
        /\ LeaseHasEmptyField =>
               /\ DOMAIN last.ret.object = {"valid-lifetime", "interfaces-config"}
               /\ last.ret.object["valid-lifetime"] = valid_lifetime
               /\ last.ret.object["interfaces-config"] =
                      JsonObject("interfaces" :> JsonArray(interface_config))
               /\ last.cerr # <<>>

\* Interfaces, a lease database with a type and persist set but no name, a
\* subnet and an option.
C9_Witness ==
    /\ IsToJsonDhcp4
    /\ interface_config # <<>>
    /\ lease_database.type # ""
    /\ lease_database.name = ""
    /\ lease_database.persist
    /\ DOMAIN cfgs # {}
    /\ options # <<>>

\* C10: with interfaces and a usable lease database but no subnet entry the
\* document has exactly the fields valid-lifetime, interfaces-config and
\* lease-database and a diagnostic is emitted; option-data is not emitted
\* even when options have been added.
C10_EmptySubnet4ThreeFields ==
    (IsToJsonDhcp4 /\ interface_config # <<>> /\ ~LeaseHasEmptyField
        /\ DOMAIN cfgs = {}) =>
        /\ DOMAIN last.ret.object =
               {"valid-lifetime", "interfaces-config", "lease-database"}
        /\ last.ret.object["valid-lifetime"] = valid_lifetime
        /\ last.ret.object["interfaces-config"] =
               JsonObject("interfaces" :> JsonArray(interface_config))
        /\ last.ret.object["lease-database"] =
               JsonObject(("type" :> lease_database.type)
                          @@ ("persist" :> lease_database.persist)
                          @@ ("name" :> lease_database.name))
        /\ last.cerr # <<>>

\* Interfaces, a usable lease database, an option and no subnet.
C10_Witness ==
    /\ IsToJsonDhcp4
    /\ interface_config # <<>>
    /\ ~LeaseHasEmptyField
    /\ DOMAIN cfgs = {}
    /\ options # <<>>


AllSectionsPresent ==
    /\ interface_config # <<>>
    /\ ~LeaseHasEmptyField
    /\ DOMAIN cfgs # {}

\* C11: with interfaces, a usable lease database and at least one subnet
\* entry the document has the fields valid-lifetime, interfaces-config,
\* lease-database and subnet4, and the field option-data exactly when an
\* option has been added: with no option it has exactly those four fields.
C11_FourFieldsAndOptionData ==
    (IsToJsonDhcp4 /\ AllSectionsPresent) =>
        LET doc == last.ret.object IN
        /\ {"valid-lifetime", "interfaces-config", "lease-database", "subnet4"}
               \subseteq DOMAIN doc
        /\ DOMAIN doc \subseteq
               {"valid-lifetime", "interfaces-config", "lease-database",
                "subnet4", "option-data"}
        /\ "option-data" \in DOMAIN doc <=> options # <<>>
        /\ options = <<>> => Cardinality(DOMAIN doc) = 4
        /\ doc["valid-lifetime"] = valid_lifetime
        /\ Len(doc["subnet4"].array) = Cardinality(DOMAIN cfgs)
        /\ options # <<>> =>
               /\ Len(doc["option-data"].array) = Len(options)
               /\ \A i \in 1 .. Len(options) :
                      /\ doc["option-data"].array[i].object["name"] = options[i].name
                      /\ doc["option-data"].array[i].object["data"] = options[i].data
                      /\ doc["option-data"].array[i].object["always-send"] =
                             options[i].always_send

\* All three sections, a subnet with a pool, and no option.
C11_Witness ==
    /\ IsToJsonDhcp4
    /\ AllSectionsPresent
    /\ options = <<>>
    /\ \E k \in DOMAIN cfgs : cfgs[k].pools # <<>>
    /\ Cardinality(DOMAIN last.ret.object) = 4

\* The section a diagnostic is about.
DiagnosticSection(text) ==
    IF Len(text) >= 17 /\ SubSeq(text, 1, 17) = "interfaces-config"
        THEN "interfaces-config"
    ELSE IF Len(text) >= 14 /\ SubSeq(text, 1, 14) = "lease database"
        THEN "lease-database"
    ELSE IF Len(text) >= 7 /\ SubSeq(text, 1, 7) = "subnet4" THEN "subnet4"
    ELSE IF Len(text) >= 11 /\ SubSeq(text, 1, 11) = "option data"
        THEN "option-data"
    ELSE "other"

FirstEmptySection ==
    IF interface_config = <<>> THEN "interfaces-config"
    ELSE IF LeaseHasEmptyField THEN "lease-database"
    ELSE IF DOMAIN cfgs = {} THEN "subnet4"
    ELSE "none"

\* C12: a serialization of a Dhcp4 emits a diagnostic exactly when
\* interfaces-config, lease-database or subnet4 is empty, and then exactly
\* one, about the first empty section in that order; with those three
\* present an empty option-data emits no diagnostic and the document keeps
\* its four fields.
C12_DiagnosticIffSectionEmpty ==
    IsToJsonDhcp4 =>
        /\ last.cerr # <<>> <=> FirstEmptySection # "none"
        /\ FirstEmptySection # "none" =>
               /\ Len(last.cerr) = 1
               /\ DiagnosticSection(last.cerr[1]) = FirstEmptySection
        /\ (AllSectionsPresent /\ options = <<>>) =>
               /\ last.cerr = <<>>
               /\ DOMAIN last.ret.object =
                      {"valid-lifetime", "interfaces-config", "lease-database",
                       "subnet4"}


(***************************************************************************)
(* Serialization of a Subnet4 (checked under SpecSubnet4).                 *)
(***************************************************************************)
IsToJsonSubnet4 == last.op = "to_json_Subnet4"

\* C13: serializing a Subnet4 gives an array with exactly one element per
\* entry, as many as add_config has been called, each an object with id,
\* subnet and pools of its entry, in no guaranteed order; a Subnet4 without
\* entries gives the empty array.
C13_OneElementPerEntry ==
    IsToJsonSubnet4 =>
        LET arr == last.ret.array IN
        /\ DOMAIN last.ret = {"array"}
        /\ Len(arr) = Len(returned)
        /\ Len(arr) = Cardinality(DOMAIN cfgs)
        /\ \A i \in 1 .. Len(arr) :
               /\ DOMAIN arr[i].object = {"id", "subnet", "pools"}
               /\ arr[i].object["id"] \in DOMAIN cfgs
               /\ arr[i].object["subnet"] = cfgs[arr[i].object["id"]].subnet
               /\ Len(arr[i].object["pools"].array) =
                      Len(cfgs[arr[i].object["id"]].pools)
               /\ \A p \in 1 .. Len(arr[i].object["pools"].array) :
                      arr[i].object["pools"].array[p] =
                          JsonObject("pool" :>
                              cfgs[arr[i].object["id"]].pools[p].range)
        /\ \A k \in DOMAIN cfgs :
               Cardinality({i \in 1 .. Len(arr) : arr[i].object["id"] = k}) = 1
        /\ DOMAIN cfgs = {} => last.ret = JsonArray(<<>>)

\* Two entries, the first with a pool, serialized with entry 2 first.
C13_Witness ==
    /\ IsToJsonSubnet4
    /\ Len(last.ret.array) = 2
    /\ last.ret.array[1].object["id"] = 2
    /\ last.ret.array[2].object["id"] = 1
    /\ cfgs[1].pools # <<>>


(***************************************************************************)
(* Nothing is removed (checked under Spec).                                *)
(***************************************************************************)
\* C14: nothing is ever removed or updated in place.  Every step keeps every
\* entry with its identifier and subnet, every pool descriptor of every
\* entry, and every option with its data and always-send; so what is present
\* in one state is present in every later state.
C14_NothingRemoved ==
    [][/\ \A k \in DOMAIN cfgs :
              /\ k \in DOMAIN cfgs'
              /\ cfgs'[k].id = cfgs[k].id
              /\ cfgs'[k].subnet = cfgs[k].subnet
              /\ \A p \in 1 .. Len(cfgs[k].pools) :
                     \E q \in 1 .. Len(cfgs'[k].pools) :
                         cfgs'[k].pools[q] = cfgs[k].pools[p]
       /\ \A i \in 1 .. Len(options) :
              \E n \in 1 .. Len(options') : options'[n] = options[i]]_vars

\* A second add_config after a pool and an option were added, and a second
\* add_option of a present name with the other always-send.
C14_Witness ==
    /\ Len(returned) = 2
    /\ cfgs[1].pools # <<>>
    /\ Len(calls) = 2
    /\ calls[1].always_send # calls[2].always_send
    /\ options # <<>>
    /\ last.op = "add_config"
    /\ pre.cfgs[1].pools # <<>>

(***************************************************************************)
(* Order of the pools (checked under SpecSubnet4).                         *)
(***************************************************************************)
\* C15: the pools of every entry are held, and serialized, in ascending
\* string order of their range descriptors, without duplicates:
\* "192.168.1.100 - 192.168.1.200" comes before "192.168.1.50 - 192.168.1.60".
C15_PoolsAscending ==
    /\ \A k \in DOMAIN cfgs :
           \A i, n \in 1 .. Len(cfgs[k].pools) :
               i < n => /\ LexBefore(cfgs[k].pools[i].range, cfgs[k].pools[n].range)
                        /\ cfgs[k].pools[i].range # cfgs[k].pools[n].range
    /\ IsToJsonSubnet4 =>
           \A e \in 1 .. Len(last.ret.array) :
               LET pools == last.ret.array[e].object["pools"].array IN
               \A i, n \in 1 .. Len(pools) :
                   i < n => /\ LexBefore(pools[i].object["pool"],
                                         pools[n].object["pool"])
                            /\ pools[i].object["pool"] # pools[n].object["pool"]
    /\ PoolSetInsert(PoolSetInsert(<<>>, [range |-> "192.168.1.50 - 192.168.1.60"]),
                     [range |-> "192.168.1.100 - 192.168.1.200"])
           = <<[range |-> "192.168.1.100 - 192.168.1.200"],
               [range |-> "192.168.1.50 - 192.168.1.60"]>>

\* An entry with its three pools serialized.
C15_Witness ==
    /\ IsToJsonSubnet4
    /\ pre.cfgs = cfgs
    /\ \E e \in 1 .. Len(last.ret.array) :
           /\ Len(last.ret.array[e].object["pools"].array) = 3
           /\ last.ret.array[e].object["pools"].array[1] =
                  JsonObject("pool" :> "1 - 20")
           /\ last.ret.array[e].object["pools"].array[2] =
                  JsonObject("pool" :> "10 - 20")
           /\ last.ret.array[e].object["pools"].array[3] =
                  JsonObject("pool" :> "5 - 20")

(***************************************************************************)
(* add_option_always (checked under SpecOptionData).                       *)
(***************************************************************************)
\* C16: add_option_always (name, data) leaves the state that
\* add_option (name, data, true) leaves: a new name is stored with that data
\* and always-send true, and a name already present leaves the options as
\* they were.
C16_AlwaysIsAddOptionTrue ==
    last.op = "add_option_always" =>
        LET x == [name |-> last.name, data |-> last.data, always_send |-> TRUE]
            present == \E i \in 1 .. Len(pre.options) :
                           pre.options[i].name = last.name
        IN
        /\ Config = [pre EXCEPT !.options = OptionSetInsert(pre.options, x)]
        /\ present => options = pre.options
        /\ ~present =>
               /\ Len(options) = Len(pre.options) + 1
               /\ \E i \in 1 .. Len(options) : options[i] = x
               /\ \A i \in 1 .. Len(pre.options) :
                      \E n \in 1 .. Len(options) : options[n] = pre.options[i]

\* add_option_always with a new name after an option was stored with
\* always-send false.
C16_Witness ==
    /\ last.op = "add_option_always"
    /\ Len(pre.options) = 1
    /\ ~pre.options[1].always_send
    /\ Len(options) = 2
    /\ \E i \in 1 .. 2 : options[i].name = last.name /\ options[i].always_send


(***************************************************************************)
(* Serialization of a KeaConfig (checked under Spec).                      *)
(***************************************************************************)
IsToJsonKeaConfig == last.op = "to_json_KeaConfig"

\* The documents to_json (Dhcp4) of the build can give for the Dhcp4 of the
\* state.
Dhcp4Documents ==
    {(IF build = "lib" THEN to_json_Dhcp4(Config, order)
                       ELSE main_to_json_Dhcp4(Config, order)).j :
        order \in IterationOrders(cfgs)}

\* C17: serializing a KeaConfig gives an object with exactly one field,
\* "Dhcp4", whose value is the serialization of the Dhcp4 it wraps, a
\* truncated document included.
C17_OnlyDhcp4Field ==
    IsToJsonKeaConfig =>
        /\ DOMAIN last.ret = {"object"}
        /\ DOMAIN last.ret.object = {"Dhcp4"}
        /\ last.ret.object["Dhcp4"] \in Dhcp4Documents

\* A KeaConfig whose Dhcp4 has interfaces but an unusable lease database: the
\* document under "Dhcp4" stops after interfaces-config.
C17_Witness ==
    /\ IsToJsonKeaConfig
    /\ interface_config # <<>>
    /\ LeaseHasEmptyField
    /\ DOMAIN cfgs # {}
    /\ DOMAIN last.ret.object["Dhcp4"].object =
           {"valid-lifetime", "interfaces-config"}

\* C18: serialization is pure.  Serializing a Dhcp4 or a KeaConfig leaves the
\* lifetime, the interfaces, the lease database, the entries with their
\* pools, the next-identifier counter and the options as they were.
C18_SerializationPure ==
    (IsToJsonDhcp4 \/ IsToJsonKeaConfig) =>
        /\ valid_lifetime = pre.valid_lifetime
        /\ interface_config = pre.interface_config
        /\ lease_database = pre.lease_database
        /\ cfgs = pre.cfgs
        /\ max_id = pre.max_id
        /\ options = pre.options

\* A complete configuration with a pool and an option, serialized.
C18_Witness ==
    /\ IsToJsonDhcp4
    /\ AllSectionsPresent
    /\ \E k \in DOMAIN cfgs : cfgs[k].pools # <<>>
    /\ options # <<>>
    /\ "option-data" \in DOMAIN last.ret.object

(***************************************************************************)
(* The entry map (checked under SpecSubnet4).                              *)
(***************************************************************************)
\* C19: the keys of the entry map are exactly 1 .. max_id - 1, the identifier
\* stored in an entry is its key, and max_id is one more than the number of
\* add_config calls made.
C19_KeysAreOneToMaxId ==
    /\ DOMAIN cfgs = 1 .. (max_id - 1)
    /\ \A k \in DOMAIN cfgs : cfgs[k].id = k
    /\ max_id = 1 + Len(returned)

\* Two add_config calls and then a pool for the second entry.
C19_Witness ==
    /\ max_id = 3
    /\ Len(returned) = 2
    /\ IsAddPool
    /\ last.ret
    /\ cfgs[2].pools # <<>>

(***************************************************************************)
(* What an operation leaves alone (checked under Spec).                    *)
(***************************************************************************)
\* C20: a successful add_pool_for_cfg changes only the pool set of the entry
\* it names: the pools of the other entries, every identifier and subnet,
\* the set of identifiers, max_id and the options stay as they were.
\* add_config leaves the existing entries and their pools as they were, and
\* add_option and add_option_always leave the Subnet4 as it was.
C20_OnlyTheNamedPart ==
    /\ (IsAddPool /\ last.ret) =>
           /\ DOMAIN cfgs = DOMAIN pre.cfgs
           /\ \A k \in DOMAIN cfgs :
                  /\ cfgs[k].id = pre.cfgs[k].id
                  /\ cfgs[k].subnet = pre.cfgs[k].subnet
                  /\ k # last.cfg_id => cfgs[k].pools = pre.cfgs[k].pools
           /\ max_id = pre.max_id
           /\ options = pre.options
    /\ last.op = "add_config" =>
           /\ \A k \in DOMAIN pre.cfgs :
                  k \in DOMAIN cfgs /\ cfgs[k].pools = pre.cfgs[k].pools
           /\ options = pre.options
    /\ IsAddOption =>
           /\ cfgs = pre.cfgs
           /\ max_id = pre.max_id

\* A pool added to the second of two entries while the first has none and an
\* option is stored.
C20_Witness ==
    /\ IsAddPool
    /\ last.ret
    /\ last.cfg_id = 2
    /\ DOMAIN cfgs = {1, 2}
    /\ cfgs[1].pools = <<>>
    /\ pre.cfgs[2].pools = <<>>
    /\ cfgs[2].pools # <<>>
    /\ options # <<>>


(***************************************************************************)
(* The fields of a Dhcp4 document (checked under Spec).                    *)
(***************************************************************************)
FieldSequence ==
    <<"valid-lifetime", "interfaces-config", "lease-database", "subnet4",
      "option-data">>

IsFieldPrefix(doc) ==
    \E n \in 1 .. Len(FieldSequence) :
        DOMAIN doc.object = {FieldSequence[i] : i \in 1 .. n}

\* C21: the fields of every serialized Dhcp4, on its own or inside a
\* KeaConfig, are a prefix of valid-lifetime, interfaces-config,
\* lease-database, subnet4, option-data: valid-lifetime is always there, and
\* each later field is there only if the one before it is.
C21_FieldsFormPrefix ==
    /\ IsToJsonDhcp4 =>
           /\ DOMAIN last.ret = {"object"}
           /\ IsFieldPrefix(last.ret)
    /\ IsToJsonKeaConfig =>
           /\ DOMAIN last.ret.object["Dhcp4"] = {"object"}
           /\ IsFieldPrefix(last.ret.object["Dhcp4"])

\* Interfaces and an option but an unusable lease database and a subnet
\* entry: the document stops before lease-database, and subnet4 and
\* option-data are left out with it.
C21_Witness ==
    /\ IsToJsonDhcp4
    /\ interface_config # <<>>
    /\ LeaseHasEmptyField
    /\ DOMAIN cfgs # {}
    /\ options # <<>>
    /\ DOMAIN last.ret.object = {"valid-lifetime", "interfaces-config"}

(***************************************************************************)
(* The two to_json (Dhcp4) side by side (checked under Spec).              *)
(***************************************************************************)
\* The document of the last serialization is one that both serializers
\* give for the Dhcp4 of the state.
BothGiveLastDocument ==
    \E order \in IterationOrders(cfgs) :
        /\ last.ret = to_json_Dhcp4(Config, order).j
        /\ last.ret = main_to_json_Dhcp4(Config, order).j

\* C22 as stated: the serializer of KeaGenerator.cc and the one of main.cc
\* give the same document for every Dhcp4, and what they write to std::cerr
\* differs only by one more diagnostic of main.cc when option data is empty.
C22_DifferOnlyInOptionDiagnostic ==
    IsToJsonDhcp4 =>
        /\ BothGiveLastDocument
        /\ \A order \in IterationOrders(cfgs) :
               LET lib == to_json_Dhcp4(Config, order)
                   main == main_to_json_Dhcp4(Config, order)
               IN
               /\ lib.j = main.j
               /\ main.cerr # lib.cerr =>
                      /\ options = <<>>
                      /\ Len(main.cerr) = Len(lib.cerr) + 1
                      /\ SubSeq(main.cerr, 1, Len(lib.cerr)) = lib.cerr

\* C22, amended: the two serializers give the same document for every
\* Dhcp4.  When interfaces-config, lease-database or subnet4 is empty both
\* write one diagnostic about the same section, the one of KeaGenerator.cc
\* with " during JSON serialization" after the words of main.cc.  When those
\* three are present and option data is empty, main.cc writes
\* "option data is empty" and KeaGenerator.cc writes nothing; otherwise
\* neither writes anything.
C22_SameDocumentOtherWords ==
    IsToJsonDhcp4 =>
        /\ BothGiveLastDocument
        /\ \A order \in IterationOrders(cfgs) :
               LET lib == to_json_Dhcp4(Config, order)
                   main == main_to_json_Dhcp4(Config, order)
               IN
               /\ lib.j = main.j
               /\ FirstEmptySection # "none" =>
                      /\ Len(lib.cerr) = 1
                      /\ Len(main.cerr) = 1
                      /\ lib.cerr[1] = main.cerr[1] \o " during JSON serialization"
                      /\ DiagnosticSection(main.cerr[1]) = FirstEmptySection
               /\ (FirstEmptySection = "none" /\ options = <<>>) =>
                      /\ lib.cerr = <<>>
                      /\ main.cerr = <<"option data is empty">>
               /\ (FirstEmptySection = "none" /\ options # <<>>) =>
                      /\ lib.cerr = <<>>
                      /\ main.cerr = <<>>

\* main.cc serializes a Dhcp4 with the three sections and no option: four
\* fields and the diagnostic about option data.
C22_Witness ==
    /\ IsToJsonDhcp4
    /\ build = "main"
    /\ AllSectionsPresent
    /\ options = <<>>
    /\ last.cerr = <<"option data is empty">>
    /\ Cardinality(DOMAIN last.ret.object) = 4

====
